---- MODULE Spec2Model ----
(***************************************************************************)
(* YouTube video information extractor: the fetch pipeline of the App      *)
(* component (handleFetchData) and of services/youtubeService.ts.          *)
(*                                                                         *)
(* Strings the code parses (URLs, keywords, durations, counts) are         *)
(* sequences of one-character strings; opaque strings (ids, messages) are  *)
(* TLA+ strings.  The user-facing messages of the source are Japanese;     *)
(* each message constant below carries an English rendering of it.         *)
(***************************************************************************)
EXTENDS Integers, Sequences, FiniteSets, TLC

(***************************************************************************)
(* Characters and character classes of the regular expressions.            *)
(***************************************************************************)
Lower == <<"a", "b", "c", "d", "e", "f", "g", "h", "i", "j", "k", "l", "m", "n", "o", "p", "q", "r", "s", "t", "u", "v", "w", "x", "y", "z">>

Upper == <<"A", "B", "C", "D", "E", "F", "G", "H", "I", "J", "K", "L", "M", "N", "O", "P", "Q", "R", "S", "T", "U", "V", "W", "X", "Y", "Z">>

Digits == <<"0", "1", "2", "3", "4", "5", "6", "7", "8", "9">>

Range(s) == {s[i] : i \in 1..Len(s)}

DigitChars == Range(Digits)

AlnumChars == Range(Lower) \cup Range(Upper) \cup Range(Digits)

\* \s
SpaceChars == {" "}

\* the complement of [^"&?\/\s]
NotVideoIdChars == {"\"", "&", "?", "/"} \cup SpaceChars

\* [a-zA-Z0-9_-]
ChannelIdChars == AlnumChars \cup {"_", "-"}

\* [a-zA-Z0-9_.-]
HandleChars == AlnumChars \cup {"_", ".", "-"}

\* the complement of [^\/]
SlashChars == {"/"}

DigitValue(c) == CHOOSE d \in 0..9 : Digits[d + 1] = c

RECURSIVE DigitsValue(_)
\* the value of a non-empty run of decimal digits
DigitsValue(s) ==
  IF Len(s) = 0 THEN 0
  ELSE 10 * DigitsValue(SubSeq(s, 1, Len(s) - 1)) + DigitValue(s[Len(s)])

\* the literal lit occurs in s at position i
MatchAt(s, i, lit) ==
  /\ i >= 1
  /\ i + Len(lit) - 1 <= Len(s)
  /\ \A k \in 1..Len(lit) : s[i + k - 1] = lit[k]

\* the position after the longest run, starting at j, of characters that are
\* in the class (inside = TRUE) or outside it (inside = FALSE)
RunEnd(s, j, class, inside) ==
  CHOOSE k \in j..(Len(s) + 1) :
    /\ \A m \in j..(k - 1) : (s[m] \in class) = inside
    /\ (k = Len(s) + 1 \/ (s[k] \in class) # inside)

Min(S) == CHOOSE x \in S : \A y \in S : x <= y

Max(S) == CHOOSE x \in S : \A y \in S : x >= y

\* String.prototype.trim() leaves nothing
TrimIsEmpty(s) == \A i \in 1..Len(s) : s[i] \in SpaceChars

(***************************************************************************)
(* parseInt(string, 10): leading white space, an optional sign, then the   *)
(* longest run of digits; NaN when there is no digit.                      *)
(***************************************************************************)
NaN == [nan |-> TRUE, val |-> 0]

Num(n) == [nan |-> FALSE, val |-> n]

ParseInt(s) ==
  LET a == RunEnd(s, 1, SpaceChars, TRUE)
      neg == a <= Len(s) /\ s[a] = "-"
      b == IF a <= Len(s) /\ s[a] \in {"-", "+"} THEN a + 1 ELSE a
      e == RunEnd(s, b, DigitChars, TRUE)
  IN  IF e = b THEN NaN
      ELSE Num(IF neg THEN 0 - DigitsValue(SubSeq(s, b, e - 1))
                      ELSE DigitsValue(SubSeq(s, b, e - 1)))

\* x || d  for a number x: NaN and 0 are falsy
OrElse(x, d) == IF x.nan \/ x.val = 0 THEN d ELSE x.val

(***************************************************************************)
(* parseISO8601Duration: /PT(?:(\d+)H)?(?:(\d+)M)?(?:(\d+)S)?/             *)
(***************************************************************************)
LitPT == <<"P", "T">>

\* (?:(\d+)X)? at position j: the digits must be followed by the unit
DurationGroup(s, j, unit) ==
  LET k == RunEnd(s, j, DigitChars, TRUE)
  IN  IF k > j /\ k <= Len(s) /\ s[k] = unit
        THEN [val |-> DigitsValue(SubSeq(s, j, k - 1)), next |-> k + 1]
        ELSE [val |-> 0, next |-> j]

\* hours weighed as minutes
parseISO8601Duration_hoursAsMinutes(duration) ==
  LET starts == {i \in 1..Len(duration) : MatchAt(duration, i, LitPT)}
  IN  IF starts = {} THEN 0
      ELSE LET i == Min(starts)
               h == DurationGroup(duration, i + 2, "H")
               m == DurationGroup(duration, h.next, "M")
               s == DurationGroup(duration, m.next, "S")
           IN  (h.val * 60) + (m.val * 60) + s.val

parseISO8601Duration(duration) ==
  LET starts == {i \in 1..Len(duration) : MatchAt(duration, i, LitPT)}
  IN  IF starts = {} THEN 0
      ELSE LET i == Min(starts)
               h == DurationGroup(duration, i + 2, "H")
               m == DurationGroup(duration, h.next, "M")
               s == DurationGroup(duration, m.next, "S")
           IN  (h.val * 3600) + (m.val * 60) + s.val

(***************************************************************************)
(* extractVideoId:                                                         *)
(* /(?:youtube\.com\/(?:[^\/]+\/.+\/|(?:v|e(?:mbed)?)\/|.*[?&]v=)          *)
(*    |youtu\.be\/)([^"&?\/\s]{11})/                                       *)
(* The result is the position of the captured group of the leftmost match, *)
(* alternatives tried in the order written, greedy quantifiers giving back *)
(* from the longest; 0 stands for "no match at this start".                *)
(***************************************************************************)
LitYoutubeCom == <<"y", "o", "u", "t", "u", "b", "e", ".", "c", "o", "m", "/">>

LitYoutuBe == <<"y", "o", "u", "t", "u", ".", "b", "e", "/">>

LitV == <<"v", "/">>

LitE == <<"e", "/">>

LitEmbed == <<"e", "m", "b", "e", "d", "/">>

LitChannel == <<"y", "o", "u", "t", "u", "b", "e", ".", "c", "o", "m", "/", "c", "h", "a", "n", "n", "e", "l", "/">>

LitAt == <<"y", "o", "u", "t", "u", "b", "e", ".", "c", "o", "m", "/", "@">>

VideoIdLen == 11

\* ([^"&?\/\s]{11}) at position j
VideoIdAt(s, j) ==
  /\ j >= 1
  /\ j + VideoIdLen - 1 <= Len(s)
  /\ \A k \in j..(j + VideoIdLen - 1) : ~(s[k] \in NotVideoIdChars)

\* [^\/]+\/.+\/ from position a, then the id
PathAlternative(s, a) ==
  LET p == RunEnd(s, a, SlashChars, FALSE)
      qs == {q \in (p + 2)..Len(s) : s[q] = "/" /\ VideoIdAt(s, q + 1)}
  IN  IF p > a /\ p <= Len(s) /\ qs # {} THEN Max(qs) + 1 ELSE 0

\* (?:v|e(?:mbed)?)\/ from position a, then the id
EmbedAlternative(s, a) ==
  IF MatchAt(s, a, LitV) /\ VideoIdAt(s, a + 2) THEN a + 2
  ELSE IF MatchAt(s, a, LitEmbed) /\ VideoIdAt(s, a + 6) THEN a + 6
  ELSE IF MatchAt(s, a, LitE) /\ VideoIdAt(s, a + 2) THEN a + 2
  ELSE 0

\* .*[?&]v= from position a, then the id
QueryAlternative(s, a) ==
  LET rs == {r \in a..Len(s) :
               /\ s[r] \in {"?", "&"}
               /\ MatchAt(s, r + 1, <<"v", "=">>)
               /\ VideoIdAt(s, r + 3)}
  IN  IF rs # {} THEN Max(rs) + 3 ELSE 0

\* the position of the captured id for a match starting at i, or 0
VideoIdMatchFrom(s, i) ==
  IF MatchAt(s, i, LitYoutubeCom)
    THEN LET a == i + Len(LitYoutubeCom)
         IN  IF PathAlternative(s, a) # 0 THEN PathAlternative(s, a)
             ELSE IF EmbedAlternative(s, a) # 0 THEN EmbedAlternative(s, a)
             ELSE QueryAlternative(s, a)
  ELSE IF MatchAt(s, i, LitYoutuBe) /\ VideoIdAt(s, i + Len(LitYoutuBe))
    THEN i + Len(LitYoutuBe)
  ELSE 0

\* a pattern that takes v= from the query of any host
extractVideoId_anyHost(url) ==
  LET starts == {i \in 1..Len(url) : VideoIdMatchFrom(url, i) # 0}
      j == IF starts # {} THEN VideoIdMatchFrom(url, Min(starts))
           ELSE QueryAlternative(url, 1)
  IN  IF j = 0 THEN <<>> ELSE SubSeq(url, j, j + VideoIdLen - 1)

\* null is the empty sequence: a captured id is never empty
extractVideoId(url) ==
  LET starts == {i \in 1..Len(url) : VideoIdMatchFrom(url, i) # 0}
  IN  IF starts = {} THEN <<>>
      ELSE LET j == VideoIdMatchFrom(url, Min(starts))
           IN  SubSeq(url, j, j + VideoIdLen - 1)

(***************************************************************************)
(* extractChannelIdentifier:  /youtube\.com\/channel\/([a-zA-Z0-9_-]+)/    *)
(* then /youtube\.com\/@([a-zA-Z0-9_.-]+)/                                 *)
(***************************************************************************)
NoIdentifier == [type |-> "none", value |-> <<>>]

\* the leftmost match of lit followed by a non-empty run of the class
CaptureAfter(s, lit, class) ==
  LET starts == {i \in 1..Len(s) :
                   /\ MatchAt(s, i, lit)
                   /\ i + Len(lit) <= Len(s)
                   /\ s[i + Len(lit)] \in class}
  IN  IF starts = {} THEN <<>>
      ELSE LET j == Min(starts) + Len(lit)
           IN  SubSeq(s, j, RunEnd(s, j, class, TRUE) - 1)

extractChannelIdentifier(url) ==
  IF CaptureAfter(url, LitChannel, ChannelIdChars) # <<>>
    THEN [type |-> "id", value |-> CaptureAfter(url, LitChannel, ChannelIdChars)]
  ELSE IF CaptureAfter(url, LitAt, HandleChars) # <<>>
    THEN [type |-> "handle", value |-> CaptureAfter(url, LitAt, HandleChars)]
  ELSE NoIdentifier

(***************************************************************************)
(* Messages.  Null is "no error" (error === null).                         *)
(***************************************************************************)
Null == "<null>"

\* App: 'YouTube API key required'
MsgApiKeyRequired == "Please enter a YouTube API key."

\* App: 'enter a video or channel URL'
MsgUrlRequired == "Please enter a YouTube video or channel URL."

\* App: 'invalid video or channel URL'
MsgInvalidUrl == "Invalid YouTube video or channel URL."

\* App: 'enter a search keyword'
MsgKeywordRequired == "Please enter a search keyword."

\* App: 'no videos were found' (the list of ids is empty)
MsgNoVideosFound == "No videos were found."

\* App: fallback of the catch clause
MsgGenericFetch == "An error occurred while fetching data."

MsgHandleSearchFailed == "Failed to search for the channel handle."

MsgChannelIdNotFound == "Channel ID was not found. Check the handle or URL."

\* the same text serves the content-details lookup and the statistics batch
MsgChannelFetchFailed == "Failed to fetch channel data."

MsgChannelInfoNotFound == "Channel information was not found."

MsgNoUploadsPlaylist == "This channel has no list of uploaded videos."

MsgPlaylistFetchFailed == "Failed to fetch the playlist's videos."

MsgNoVideosInChannel == "No videos were found in the channel."

MsgKeywordSearchFailed == "Failed to search videos by keyword."

MsgVideoFetchFailed == "Failed to fetch video data. Check the API key."

MsgVideoNotFound == "No video with the given ID was found."

\* channelDetails.items.forEach on a response without items
MsgTypeErrorForEach == "Cannot read properties of undefined (reading 'forEach')"

\* errorData.error.message || fallback
\* an error handler that always reports its own fixed text
UpstreamFailure_generic(message, fallback) == fallback

UpstreamFailure(message, fallback) == IF message = "" THEN fallback ELSE message

\* err.message || fallback
CaughtMessage(message) == IF message = "" THEN MsgGenericFetch ELSE message

(***************************************************************************)
(* Bounds of the model and the inputs it draws.                            *)
(***************************************************************************)
\* clicks of the fetch button in one behaviour
MaxFetch == 2

\* items in one upstream response
MaxItems == 2

UrlBlank == <<" ", " ">>

UrlGarbage == <<"g", "a", "r", "b", "a", "g", "e">>

UrlWatch == <<"y", "o", "u", "t", "u", ".", "b", "e", "/", "d", "Q", "w", "4", "w", "9", "W", "g", "X", "c", "Q">>

UrlChannel == <<"y", "o", "u", "t", "u", "b", "e", ".", "c", "o", "m", "/", "c", "h", "a", "n", "n", "e", "l", "/", "U", "C", "A">>

UrlHandle == <<"y", "o", "u", "t", "u", "b", "e", ".", "c", "o", "m", "/", "@", "m", "y", ".", "h">>

UrlSamples == {UrlBlank, UrlGarbage, UrlWatch, UrlChannel, UrlHandle}

KeywordSamples == {<<>>, <<"c", "a", "t", "s">>}

ApiKeySamples == {"", "KEY"}

CountSamples == {<<"3", "0">>, <<"0">>}

\* the largest integer typed into the count box
MaxEntered == 52

RECURSIVE NumeralDigits(_)
\* the decimal digits of a natural number
NumeralDigits(n) ==
  IF n < 10 THEN <<Digits[n + 1]>>
  ELSE Append(NumeralDigits(n \div 10), Digits[(n % 10) + 1])

\* the text of the count box after the integer n is typed into it
Numeral(n) == IF n < 0 THEN <<"-">> \o NumeralDigits(0 - n) ELSE NumeralDigits(n)

\* the integers typed into the count box
EnteredCounts == (0 - 3)..MaxEntered

UpstreamMessages == {"quotaExceeded"}

ChanA == <<"U", "C", "A">>

ChanB == <<"U", "C", "B">>

UploadsA == <<"U", "U", "A">>

Vid1 == <<"v", "1">>

Vid2 == <<"v", "2">>

Vid3 == <<"v", "3">>

\* items of a videos response: exactly two minutes, one second less, an hour
VideoItemSamples ==
  { [id |-> Vid1, channelId |-> ChanA, title |-> "b", publishedAt |-> "2024-02-01T00:00:00Z",
     duration |-> <<"P", "T", "2", "M">>, viewCount |-> <<"1", "0", "0", "0">>,
     thumbHigh |-> "high1.jpg", thumbDefault |-> "default1.jpg"],
    [id |-> Vid2, channelId |-> ChanA, title |-> "a", publishedAt |-> "2024-03-01T00:00:00Z",
     duration |-> <<"P", "T", "1", "M", "5", "9", "S">>, viewCount |-> <<"7">>,
     thumbHigh |-> "high2.jpg", thumbDefault |-> "default2.jpg"],
    [id |-> Vid3, channelId |-> ChanB, title |-> "c", publishedAt |-> "2024-01-01T00:00:00Z",
     duration |-> <<"P", "T", "1", "H", "2", "M", "3", "S">>, viewCount |-> <<"1", "0", "0", "0">>,
     thumbHigh |-> "", thumbDefault |-> "default3.jpg"] }

\* items of a channel-statistics response
ChannelStatSamples ==
  { [id |-> ChanA, subscriberCount |-> <<"5", "0", "0">>],
    [id |-> ChanB, subscriberCount |-> <<"0">>] }

\* items of a channel content-details response
ChannelItemSamples ==
  { [contentDetails |-> FALSE, uploads |-> <<>>],
    [contentDetails |-> TRUE, uploads |-> <<>>],
    [contentDetails |-> TRUE, uploads |-> UploadsA] }

SeqsUpTo(S, n) == UNION {[1..k -> S] : k \in 0..n}

\* a non-success HTTP status: the body carries error.message, possibly empty
HttpErrors ==
  {[ok |-> FALSE, message |-> m, hasItems |-> FALSE, items |-> <<>>] :
     m \in UpstreamMessages \cup {""}}

\* a success whose body has no items member
NoItems == [ok |-> TRUE, message |-> "", hasItems |-> FALSE, items |-> <<>>]

Ok(items) == [ok |-> TRUE, message |-> "", hasItems |-> TRUE, items |-> items]

Responses(S, n) == HttpErrors \cup {NoItems} \cup {Ok(s) : s \in SeqsUpTo(S, n)}

(***************************************************************************)
(* State.                                                                  *)
(***************************************************************************)
VARIABLES
  apiKey,         \* useState('')
  url,            \* useState('')
  keyword,        \* useState('')
  searchType,     \* 'url' | 'keyword'
  videoCount,     \* useState('30')
  videoData,      \* the displayed list of VideoData
  isLoading,
  error,          \* a message, or Null
  searchHistory,
  runs,           \* the runs of handleFetchData: those pending and the last ended
  net,            \* the remote calls that are outstanding
  started,        \* clicks of the fetch button so far
  sortKey,        \* useState('publishedAt')
  sortDirection   \* 'asc' | 'desc'

vars == <<apiKey, url, keyword, searchType, videoCount, videoData, isLoading,
          error, searchHistory, runs, net, started, sortKey, sortDirection>>

inputs == <<apiKey, url, keyword, searchType, videoCount>>

sorting == <<sortKey, sortDirection>>

(***************************************************************************)
(* fetchYouTubeVideosData: the pure steps between its two remote calls.    *)
(***************************************************************************)
MinDuration == 120

DefaultCount == 30

MinCount == 1

MaxCount == 50

HistoryCap == 10

\* Math.max(1, Math.min(50, parseInt(videoCount, 10) || 30))
ClampCount(text) ==
  LET n == OrElse(ParseInt(text), DefaultCount)
      capped == IF n < MaxCount THEN n ELSE MaxCount
  IN  IF capped > MinCount THEN capped ELSE MinCount

\* a filter that lets every item through
FilteredVideoItems_all(items) == items

\* videoDetails.items.filter(item => parseISO8601Duration(...) >= 120)
FilteredVideoItems(items) ==
  SelectSeq(items, LAMBDA item : parseISO8601Duration(item.duration) >= MinDuration)

RECURSIVE ChannelIds(_)
\* Object.keys(videosByChannel): the distinct channel ids, first seen first
ChannelIds(items) ==
  IF items = <<>> THEN <<>>
  ELSE LET front == ChannelIds(SubSeq(items, 1, Len(items) - 1))
           c == items[Len(items)].channelId
       IN  IF c \in Range(front) THEN front ELSE Append(front, c)

\* subscriberCounts[channelId] || 0, the later of two entries of a channel winning
SubscriberCount(stats, channelId) ==
  LET hits == {k \in 1..Len(stats) : stats[k].id = channelId}
  IN  IF hits = {} THEN 0
      ELSE OrElse(ParseInt(stats[Max(hits)].subscriberCount), 0)

RECURSIVE GCD(_, _)
GCD(a, b) == IF b = 0 THEN a ELSE GCD(b, a % b)

\* the quotient n / d of two naturals, d > 0, as a fraction in lowest terms
Quotient(n, d) == [num |-> n \div GCD(n, d), den |-> d \div GCD(n, d)]

\* the division without its guard
DiffusionRate_unguarded(viewCount, subscriberCount) ==
  [num |-> IF subscriberCount = 0 THEN viewCount ELSE viewCount \div GCD(viewCount, subscriberCount),
   den |-> IF subscriberCount = 0 THEN 0 ELSE subscriberCount \div GCD(viewCount, subscriberCount)]

\* subscriberCount > 0 ? viewCount / subscriberCount : 0
DiffusionRate(viewCount, subscriberCount) ==
  IF subscriberCount > 0 THEN Quotient(viewCount, subscriberCount)
  ELSE [num |-> 0, den |-> 1]

WatchPrefix == <<"h", "t", "t", "p", "s", ":", "/", "/", "w", "w", "w", ".", "y", "o", "u", "t", "u", "b", "e", ".", "c", "o", "m", "/", "w", "a", "t", "c", "h", "?", "v", "=">>

VideoRecord(videoItem, stats) ==
  LET viewCount == OrElse(ParseInt(videoItem.viewCount), 0)
      subscriberCount == SubscriberCount(stats, videoItem.channelId)
  IN  [videoId |-> videoItem.id,
       title |-> videoItem.title,
       thumbnailUrl |-> IF videoItem.thumbHigh # "" THEN videoItem.thumbHigh
                        ELSE videoItem.thumbDefault,
       viewCount |-> viewCount,
       subscriberCount |-> subscriberCount,
       diffusionRate |-> DiffusionRate(viewCount, subscriberCount),
       publishedAt |-> videoItem.publishedAt,
       videoUrl |-> WatchPrefix \o videoItem.id]

\* records collected back to front
ProcessedVideos_reversed(filtered, stats) ==
  [k \in 1..Len(filtered) |-> VideoRecord(filtered[Len(filtered) + 1 - k], stats)]

\* filteredVideoItems.map(...)
ProcessedVideos(filtered, stats) ==
  [k \in 1..Len(filtered) |-> VideoRecord(filtered[k], stats)]

(***************************************************************************)
(* The App component.                                                      *)
(***************************************************************************)
\* a history that forgets to take the re-added URL out
addToHistory_keepsOld(prevHistory, newUrl) ==
  IF newUrl = <<>> THEN prevHistory
  ELSE LET updated == <<newUrl>> \o prevHistory
       IN  SubSeq(updated, 1, IF Len(updated) < HistoryCap THEN Len(updated) ELSE HistoryCap)

\* [newUrl, ...prevHistory.filter(item => item !== newUrl)].slice(0, 10)
addToHistory(prevHistory, newUrl) ==
  IF newUrl = <<>> THEN prevHistory
  ELSE LET updated == <<newUrl>> \o SelectSeq(prevHistory, LAMBDA item : item # newUrl)
       IN  SubSeq(updated, 1, IF Len(updated) < HistoryCap THEN Len(updated) ELSE HistoryCap)

\* a button that stays enabled while a run is pending
ButtonDisabled_never == FALSE

\* <Button onClick={handleFetchData} disabled={isLoading}>
ButtonDisabled == isLoading

Init ==
  /\ apiKey \in ApiKeySamples
  /\ url = <<>>
  /\ keyword = <<>>
  /\ searchType = "url"
  /\ videoCount = <<"3", "0">>
  /\ videoData = <<>>
  /\ isLoading = FALSE
  /\ error = Null
  /\ searchHistory = <<>>
  /\ runs = <<>>
  /\ net = {}
  /\ started = 0
  /\ sortKey = "publishedAt"
  /\ sortDirection = "desc"

unchangedByInput == <<videoData, isLoading, error, searchHistory, runs, net, started, sorting>>

SetApiKey ==
  /\ \E k \in ApiKeySamples : apiKey' = k
  /\ UNCHANGED <<url, keyword, searchType, videoCount, unchangedByInput>>

SetUrl ==
  /\ \E u \in UrlSamples : url' = u
  /\ UNCHANGED <<apiKey, keyword, searchType, videoCount, unchangedByInput>>

SetKeyword ==
  /\ \E k \in KeywordSamples : keyword' = k
  /\ UNCHANGED <<apiKey, url, searchType, videoCount, unchangedByInput>>

SetSearchType ==
  /\ \E s \in {"url", "keyword"} : searchType' = s
  /\ UNCHANGED <<apiKey, url, keyword, videoCount, unchangedByInput>>

SetVideoCount ==
  /\ \E c \in CountSamples : videoCount' = c
  /\ UNCHANGED <<apiKey, url, keyword, searchType, unchangedByInput>>

handleHistoryClick ==
  /\ \E k \in 1..Len(searchHistory) : url' = searchHistory[k]
  /\ UNCHANGED <<apiKey, keyword, searchType, videoCount, unchangedByInput>>

\* a try block that searches for whatever the keyword box holds
FirstStep_searchesBlank(type, u, kw, count) ==
  LET videoId == extractVideoId(u)
      channelIdentifier == extractChannelIdentifier(u)
      throw(msg, hist) == [kind |-> "throw", msg |-> msg, history |-> hist,
                           call |-> "", ids |-> <<>>, maxResults |-> 0]
      fetch(call, ids, hist) == [kind |-> "call", msg |-> "", history |-> hist,
                                 call |-> call, ids |-> ids, maxResults |-> count]
  IN  IF type = "url"
        THEN IF TrimIsEmpty(u) THEN throw(MsgUrlRequired, FALSE)
             ELSE IF videoId # <<>> THEN fetch("videos", <<videoId>>, TRUE)
             ELSE IF channelIdentifier.type = "id"
               THEN fetch("channelLookup", <<channelIdentifier.value>>, TRUE)
             ELSE IF channelIdentifier.type = "handle"
               THEN fetch("handleSearch", <<channelIdentifier.value>>, TRUE)
             ELSE throw(MsgInvalidUrl, TRUE)
      ELSE fetch("keywordSearch", <<kw>>, FALSE)

\* the synchronous part of the try block: what is thrown, or the first remote call
FirstStep(type, u, kw, count) ==
  LET videoId == extractVideoId(u)
      channelIdentifier == extractChannelIdentifier(u)
      throw(msg, hist) == [kind |-> "throw", msg |-> msg, history |-> hist,
                           call |-> "", ids |-> <<>>, maxResults |-> 0]
      fetch(call, ids, hist) == [kind |-> "call", msg |-> "", history |-> hist,
                                 call |-> call, ids |-> ids, maxResults |-> count]
  IN  IF type = "url"
        THEN IF TrimIsEmpty(u) THEN throw(MsgUrlRequired, FALSE)
             ELSE IF videoId # <<>> THEN fetch("videos", <<videoId>>, TRUE)
             ELSE IF channelIdentifier.type = "id"
               THEN fetch("channelLookup", <<channelIdentifier.value>>, TRUE)
             ELSE IF channelIdentifier.type = "handle"
               THEN fetch("handleSearch", <<channelIdentifier.value>>, TRUE)
             ELSE throw(MsgInvalidUrl, TRUE)
      ELSE IF TrimIsEmpty(kw) THEN throw(MsgKeywordRequired, FALSE)
           ELSE fetch("keywordSearch", <<kw>>, FALSE)

Pending(r) == r.pc # "done"

Request(r, call, ids) ==
  [run |-> r.id, call |-> call, ids |-> ids,
   maxResults |-> IF call \in {"playlistItems", "keywordSearch"} THEN r.count ELSE 0]

\* handleFetchData up to its first await
handleFetchData ==
  /\ ~ButtonDisabled
  /\ started < MaxFetch
  /\ started' = started + 1
  /\ UNCHANGED <<inputs, sorting>>
  /\ IF apiKey = ""
       THEN /\ error' = MsgApiKeyRequired
            /\ UNCHANGED <<videoData, isLoading, searchHistory, runs, net>>
       ELSE LET count == ClampCount(videoCount)
                step == FirstStep(searchType, url, keyword, count)
                new == [id |-> started + 1, pc |-> "done", count |-> count,
                        filtered |-> <<>>, calls |-> <<>>, received |-> 0,
                        lastResp |-> NoItems,
                        outcome |-> "error", message |-> CaughtMessage(step.msg),
                        returned |-> <<>>]
                kept == SelectSeq(runs, Pending)
            IN  /\ videoData' = <<>>
                /\ searchHistory' = IF step.history THEN addToHistory(searchHistory, url)
                                    ELSE searchHistory
                /\ IF step.kind = "throw"
                     THEN /\ error' = CaughtMessage(step.msg)
                          /\ isLoading' = FALSE
                          /\ runs' = Append(kept, new)
                          /\ net' = net
                     ELSE /\ error' = Null
                          /\ isLoading' = TRUE
                          /\ runs' = Append(kept, [new EXCEPT !.pc = step.call,
                                                              !.calls = <<step.call>>,
                                                              !.outcome = "pending",
                                                              !.message = ""])
                          /\ net' = net \cup {Request(new, step.call, step.ids)}

(***************************************************************************)
(* The continuations of a run: one per awaited remote call.  A response is *)
(* whatever the upstream service chooses to answer.                        *)
(***************************************************************************)
Awaiting(i, call) ==
  /\ runs[i].pc = call
  /\ \E q \in net : q.run = runs[i].id /\ q.call = call

Answered(i) == {q \in net : q.run = runs[i].id /\ q.call = runs[i].pc}

\* the run with the response of its outstanding call taken in
Received(i, resp) == [runs[i] EXCEPT !.received = @ + 1, !.lastResp = resp]

\* a catch clause that degrades: it shows what the run had gathered so far
Throw_degrades(i, r, msg) ==
  /\ runs' = [runs EXCEPT ![i] = [r EXCEPT !.pc = "done", !.outcome = "error",
                                           !.message = CaughtMessage(msg)]]
  /\ net' = net \ Answered(i)
  /\ error' = CaughtMessage(msg)
  /\ isLoading' = FALSE
  /\ videoData' = ProcessedVideos(r.filtered, <<>>)

\* a catch clause without the finally block: the flag is left set
Throw_keepsLoading(i, r, msg) ==
  /\ runs' = [runs EXCEPT ![i] = [r EXCEPT !.pc = "done", !.outcome = "error",
                                           !.message = CaughtMessage(msg)]]
  /\ net' = net \ Answered(i)
  /\ error' = CaughtMessage(msg)
  /\ UNCHANGED <<isLoading, videoData>>

\* a throw inside the try block: catch sets the error, finally clears the flag
Throw(i, r, msg) ==
  /\ runs' = [runs EXCEPT ![i] = [r EXCEPT !.pc = "done", !.outcome = "error",
                                           !.message = CaughtMessage(msg)]]
  /\ net' = net \ Answered(i)
  /\ error' = CaughtMessage(msg)
  /\ isLoading' = FALSE
  /\ UNCHANGED videoData

\* a fetch(...) that also publishes the records gathered so far
Issue_streams(i, r, call, ids) ==
  /\ runs' = [runs EXCEPT ![i] = [r EXCEPT !.pc = call, !.calls = Append(@, call)]]
  /\ net' = (net \ Answered(i)) \cup {Request(r, call, ids)}
  /\ videoData' = ProcessedVideos(r.filtered, <<>>)
  /\ UNCHANGED <<isLoading, error>>

\* the next fetch(...) of the run
Issue(i, r, call, ids) ==
  /\ runs' = [runs EXCEPT ![i] = [r EXCEPT !.pc = call, !.calls = Append(@, call)]]
  /\ net' = (net \ Answered(i)) \cup {Request(r, call, ids)}
  /\ UNCHANGED <<videoData, isLoading, error>>

\* fetchYouTubeVideosData returned data: setVideoData(data), finally
Return(i, r, data) ==
  /\ runs' = [runs EXCEPT ![i] = [r EXCEPT !.pc = "done", !.outcome = "data",
                                           !.returned = data]]
  /\ net' = net \ Answered(i)
  /\ videoData' = data
  /\ isLoading' = FALSE
  /\ UNCHANGED error

\* videoIds is empty: setError('no videos were found'), finally
NoIds(i, r) ==
  /\ runs' = [runs EXCEPT ![i] = [r EXCEPT !.pc = "done", !.outcome = "noIds",
                                           !.message = MsgNoVideosFound]]
  /\ net' = net \ Answered(i)
  /\ error' = MsgNoVideosFound
  /\ isLoading' = FALSE
  /\ UNCHANGED videoData

HasItems(resp) == resp.hasItems /\ resp.items # <<>>

\* getChannelIdFromHandle after its fetch, then getLatestVideoIdsFromChannel; a
\* search item whose id.channelId is missing is the empty id
AfterHandleSearch(i, resp) ==
  LET r == Received(i, resp)
  IN  IF ~resp.ok THEN Throw(i, r, UpstreamFailure(resp.message, MsgHandleSearchFailed))
      ELSE IF HasItems(resp) /\ resp.items[1] # <<>>
        THEN Issue(i, r, "channelLookup", <<resp.items[1]>>)
      ELSE Throw(i, r, MsgChannelIdNotFound)

RespondHandleSearch ==
  /\ \E i \in 1..Len(runs) : \E resp \in Responses({ChanA, <<>>}, MaxItems) :
       Awaiting(i, "handleSearch") /\ AfterHandleSearch(i, resp)
  /\ UNCHANGED <<inputs, sorting, searchHistory, started>>

\* the two 'not found' messages of the lookup the wrong way round
AfterChannelLookup_swapped(i, resp) ==
  LET r == Received(i, resp)
      uploadsPlaylistId == IF resp.items[1].contentDetails THEN resp.items[1].uploads
                           ELSE <<>>
  IN  IF ~resp.ok THEN Throw(i, r, UpstreamFailure(resp.message, MsgChannelFetchFailed))
      ELSE IF ~HasItems(resp) THEN Throw(i, r, MsgNoUploadsPlaylist)
      ELSE IF uploadsPlaylistId = <<>> THEN Throw(i, r, MsgChannelInfoNotFound)
      ELSE Issue(i, r, "playlistItems", <<uploadsPlaylistId>>)

\* getLatestVideoIdsFromChannel after the content-details lookup
AfterChannelLookup(i, resp) ==
  LET r == Received(i, resp)
      uploadsPlaylistId == IF resp.items[1].contentDetails THEN resp.items[1].uploads
                           ELSE <<>>
  IN  IF ~resp.ok THEN Throw(i, r, UpstreamFailure(resp.message, MsgChannelFetchFailed))
      ELSE IF ~HasItems(resp) THEN Throw(i, r, MsgChannelInfoNotFound)
      ELSE IF uploadsPlaylistId = <<>> THEN Throw(i, r, MsgNoUploadsPlaylist)
      ELSE Issue(i, r, "playlistItems", <<uploadsPlaylistId>>)

RespondChannelLookup ==
  /\ \E i \in 1..Len(runs) : \E resp \in Responses(ChannelItemSamples, 1) :
       Awaiting(i, "channelLookup") /\ AfterChannelLookup(i, resp)
  /\ UNCHANGED <<inputs, sorting, searchHistory, started>>

\* a listing that is asked for again when the upstream call fails
AfterPlaylistItems_retries(i, resp) ==
  LET r == Received(i, resp)
  IN  IF ~resp.ok THEN Issue(i, r, "playlistItems", <<UploadsA>>)
      ELSE IF ~HasItems(resp) THEN Throw(i, r, MsgNoVideosInChannel)
      ELSE Issue(i, r, "videos", resp.items)

\* getLatestVideoIdsFromChannel after the playlist listing, then handleFetchData
AfterPlaylistItems(i, resp) ==
  LET r == Received(i, resp)
  IN  IF ~resp.ok THEN Throw(i, r, UpstreamFailure(resp.message, MsgPlaylistFetchFailed))
      ELSE IF ~HasItems(resp) THEN Throw(i, r, MsgNoVideosInChannel)
      ELSE Issue(i, r, "videos", resp.items)

RespondPlaylistItems ==
  /\ \E i \in 1..Len(runs) : \E resp \in Responses({Vid1, Vid2}, MaxItems) :
       Awaiting(i, "playlistItems") /\ AfterPlaylistItems(i, resp)
  /\ UNCHANGED <<inputs, sorting, searchHistory, started>>

\* searchVideosByKeyword after its fetch, then handleFetchData; an item whose
\* id.videoId is missing is the empty id
AfterKeywordSearch(i, resp) ==
  LET r == Received(i, resp)
      videoIds == IF HasItems(resp) THEN SelectSeq(resp.items, LAMBDA id : id # <<>>)
                  ELSE <<>>
  IN  IF ~resp.ok THEN Throw(i, r, UpstreamFailure(resp.message, MsgKeywordSearchFailed))
      ELSE IF videoIds # <<>> THEN Issue(i, r, "videos", videoIds)
      ELSE NoIds(i, r)

RespondKeywordSearch ==
  /\ \E i \in 1..Len(runs) : \E resp \in Responses({Vid1, <<>>}, MaxItems) :
       Awaiting(i, "keywordSearch") /\ AfterKeywordSearch(i, resp)
  /\ UNCHANGED <<inputs, sorting, searchHistory, started>>

\* the two kinds of emptiness the wrong way round
AfterVideos_inverted(i, resp) ==
  LET r == Received(i, resp)
      filteredVideoItems == FilteredVideoItems(resp.items)
  IN  IF ~resp.ok THEN Throw(i, r, UpstreamFailure(resp.message, MsgVideoFetchFailed))
      ELSE IF ~HasItems(resp) THEN Return(i, r, <<>>)
      ELSE IF filteredVideoItems = <<>> THEN Throw(i, r, MsgVideoNotFound)
      ELSE Issue(i, [r EXCEPT !.filtered = filteredVideoItems], "channelStats",
                 ChannelIds(filteredVideoItems))

\* fetchYouTubeVideosData after the video batch
AfterVideos(i, resp) ==
  LET r == Received(i, resp)
      filteredVideoItems == FilteredVideoItems(resp.items)
  IN  IF ~resp.ok THEN Throw(i, r, UpstreamFailure(resp.message, MsgVideoFetchFailed))
      ELSE IF ~HasItems(resp) THEN Throw(i, r, MsgVideoNotFound)
      ELSE IF filteredVideoItems = <<>> THEN Return(i, r, <<>>)
      ELSE Issue(i, [r EXCEPT !.filtered = filteredVideoItems], "channelStats",
                 ChannelIds(filteredVideoItems))

RespondVideos ==
  /\ \E i \in 1..Len(runs) : \E resp \in Responses(VideoItemSamples, MaxItems) :
       Awaiting(i, "videos") /\ AfterVideos(i, resp)
  /\ UNCHANGED <<inputs, sorting, searchHistory, started>>

\* fetchYouTubeVideosData after the channel-statistics batch
AfterChannelStats(i, resp) ==
  LET r == Received(i, resp)
  IN  IF ~resp.ok THEN Throw(i, r, UpstreamFailure(resp.message, MsgChannelFetchFailed))
      ELSE IF ~resp.hasItems THEN Throw(i, r, MsgTypeErrorForEach)
      ELSE Return(i, r, ProcessedVideos(r.filtered, resp.items))

RespondChannelStats ==
  /\ \E i \in 1..Len(runs) : \E resp \in Responses(ChannelStatSamples, MaxItems) :
       Awaiting(i, "channelStats") /\ AfterChannelStats(i, resp)
  /\ UNCHANGED <<inputs, sorting, searchHistory, started>>

Next ==
  \/ SetApiKey
  \/ SetUrl
  \/ SetKeyword
  \/ SetSearchType
  \/ SetVideoCount
  \/ handleHistoryClick
  \/ handleFetchData
  \/ RespondHandleSearch
  \/ RespondChannelLookup
  \/ RespondPlaylistItems
  \/ RespondKeywordSearch
  \/ RespondVideos
  \/ RespondChannelStats

Spec == Init /\ [][Next]_vars

(***************************************************************************)
(* The pipeline alone: the inputs are whatever the user left in the form   *)
(* when the button is first clicked, and stay as they are.                 *)
(***************************************************************************)
InitRun ==
  /\ apiKey \in ApiKeySamples
  /\ videoCount \in CountSamples
  /\ \/ searchType = "url" /\ url \in UrlSamples /\ keyword = <<>>
     \/ searchType = "keyword" /\ url = <<>> /\ keyword \in KeywordSamples
  /\ videoData = <<>>
  /\ isLoading = FALSE
  /\ error = Null
  /\ searchHistory = <<>>
  /\ runs = <<>>
  /\ net = {}
  /\ started = 0
  /\ sortKey = "publishedAt"
  /\ sortDirection = "desc"

NextRun ==
  \/ handleFetchData
  \/ RespondHandleSearch
  \/ RespondChannelLookup
  \/ RespondPlaylistItems
  \/ RespondKeywordSearch
  \/ RespondVideos
  \/ RespondChannelStats

SpecRun == InitRun /\ [][NextRun]_vars

(***************************************************************************)
(* The pipeline under every count the user may have typed: a handle run or *)
(* a keyword run, the two that hand the count to a remote call.            *)
(***************************************************************************)
InitCount ==
  /\ apiKey = "KEY"
  /\ videoCount \in {Numeral(n) : n \in EnteredCounts}
  /\ \/ searchType = "url" /\ url = UrlHandle /\ keyword = <<>>
     \/ searchType = "keyword" /\ url = <<>> /\ keyword = <<"c", "a", "t", "s">>
  /\ videoData = <<>>
  /\ isLoading = FALSE
  /\ error = Null
  /\ searchHistory = <<>>
  /\ runs = <<>>
  /\ net = {}
  /\ started = 0
  /\ sortKey = "publishedAt"
  /\ sortDirection = "desc"

SpecCount == InitCount /\ [][NextRun]_vars

(***************************************************************************)
(* The search history: the URL box takes one more URL than the history     *)
(* holds, the history starts as some earlier session saved it, and every   *)
(* click records the URL before the URL is looked at.                      *)
(***************************************************************************)
\* one-letter URLs, one more than the history can hold
HistoryUrls == {<<Lower[k]>> : k \in 1..(HistoryCap + 1)}

\* the histories an earlier session left in localStorage
SavedHistories ==
  {[j \in 1..k |-> <<Lower[j]>>] : k \in 0..HistoryCap}

InitHistory ==
  /\ apiKey = "KEY"
  /\ url = <<>>
  /\ keyword = <<>>
  /\ searchType = "url"
  /\ videoCount = <<"3", "0">>
  /\ videoData = <<>>
  /\ isLoading = FALSE
  /\ error = Null
  /\ searchHistory \in SavedHistories
  /\ runs = <<>>
  /\ net = {}
  /\ started = 0
  /\ sortKey = "publishedAt"
  /\ sortDirection = "desc"

\* onChange of the URL box
TypeUrl ==
  /\ \E u \in HistoryUrls : url' = u
  /\ UNCHANGED <<apiKey, keyword, searchType, videoCount, unchangedByInput>>

NextHistory ==
  \/ TypeUrl
  \/ handleHistoryClick
  \/ handleFetchData

SpecHistory == InitHistory /\ [][NextHistory]_vars

(***************************************************************************)
(* The sortable table: the column headers are rendered, and can be         *)
(* clicked, while a list is displayed.                                     *)
(***************************************************************************)
SortKeys == {"publishedAt", "viewCount", "subscriberCount", "diffusionRate", "title"}

\* the titles of the sample videos as String.prototype.localeCompare orders them
TitleOrder == <<"a", "b", "c">>

\* the publication instants of the sample videos as Date.getTime() orders them
PublishedOrder == <<"2024-01-01T00:00:00Z", "2024-02-01T00:00:00Z", "2024-03-01T00:00:00Z">>

Collate(title) == CHOOSE k \in 1..Len(TitleOrder) : TitleOrder[k] = title

GetTime(publishedAt) == CHOOSE k \in 1..Len(PublishedOrder) : PublishedOrder[k] = publishedAt

\* the comparator handed to Array.prototype.sort; it never answers 0 for the
\* numeric columns
Compare(a, b, key) ==
  IF key = "title" THEN Collate(a.title) - Collate(b.title)
  ELSE IF key = "publishedAt" THEN GetTime(a.publishedAt) - GetTime(b.publishedAt)
  ELSE IF key = "diffusionRate"
    THEN IF a.diffusionRate.num * b.diffusionRate.den < b.diffusionRate.num * a.diffusionRate.den
           THEN 0 - 1 ELSE 1
  ELSE IF a[key] < b[key] THEN 0 - 1 ELSE 1

\* the sorts an engine may run on a short array: a binary insertion, which
\* puts x before the first element it compares less than, and a linear one,
\* which puts x after the last element that does not compare greater than it.
\* They differ where the comparator is inconsistent (equal numeric keys).
Engines == {"binary", "linear"}

InsertSorted(sorted, x, key, engine) ==
  LET n == Len(sorted)
      p == IF engine = "binary"
             THEN Min({k \in 1..n : Compare(x, sorted[k], key) < 0} \cup {n + 1})
             ELSE Max({k \in 1..n : Compare(sorted[k], x, key) <= 0} \cup {0}) + 1
  IN  SubSeq(sorted, 1, p - 1) \o <<x>> \o SubSeq(sorted, p, n)

RECURSIVE SortedPrefix(_, _, _, _)
\* the first n elements of videos, sorted
SortedPrefix(videos, n, key, engine) ==
  IF n = 0 THEN <<>>
  ELSE CHOOSE out \in {InsertSorted(prefix, videos[n], key, engine) :
                         prefix \in {SortedPrefix(videos, n - 1, key, engine)}} : TRUE

Reverse(s) == [k \in 1..Len(s) |-> s[Len(s) + 1 - k]]

\* useMemo(() => [...videoData].sort(...), reversed when descending)
sortedVideos(engine) ==
  CHOOSE out \in {IF sortDirection = "desc" THEN Reverse(sorted) ELSE sorted :
                    sorted \in {SortedPrefix(videoData, Len(videoData), sortKey, engine)}} : TRUE

\* a header click that keeps the direction when the column changes
handleSort_keepsDirection(key) ==
  /\ videoData # <<>>
  /\ IF sortKey = key
       THEN /\ sortDirection' = (IF sortDirection = "asc" THEN "desc" ELSE "asc")
            /\ sortKey' = sortKey
       ELSE /\ sortKey' = key
            /\ sortDirection' = sortDirection
  /\ UNCHANGED <<inputs, videoData, isLoading, error, searchHistory, runs, net, started>>

\* onClick={() => handleSort(key)} of a column header
handleSort(key) ==
  /\ videoData # <<>>
  /\ IF sortKey = key
       THEN /\ sortDirection' = (IF sortDirection = "asc" THEN "desc" ELSE "asc")
            /\ sortKey' = sortKey
       ELSE /\ sortKey' = key
            /\ sortDirection' = "desc"
  /\ UNCHANGED <<inputs, videoData, isLoading, error, searchHistory, runs, net, started>>

NextSort ==
  \/ NextRun
  \/ \E key \in SortKeys : handleSort(key)

SpecSort == InitRun /\ [][NextSort]_vars

(***************************************************************************)
(* The pipeline under every URL of the supported shapes.                   *)
(***************************************************************************)
UrlPrefixes == {<<>>, <<"h", "t", "t", "p", "s", ":", "/", "/", "w", "w", "w", ".">>}

VideoIdSamples == {<<"d", "Q", "w", "4", "w", "9", "W", "g", "X", "c", "Q">>,
                   <<"e", "m", "b", "e", "d", "-", "_", "0", "a", "Z", "9">>,
                   <<"v", "_", "c", "h", "a", "n", "n", "e", "l", "-", "9">>}

ChannelIdSamples == {<<"U", "C", "A">>, <<"U", "C", "-", "_", "x", "9">>}

HandleSamples == {<<"m", "y", ".", "h">>, <<"a", "_", "b", "-", "c">>}

\* watch?v=ID, youtu.be/ID, /embed/ID and /v/ID, bare or with a further parameter
VideoUrls(id) ==
  {pre \o body : pre \in UrlPrefixes,
                 body \in {<<"y", "o", "u", "t", "u", "b", "e", ".", "c", "o", "m", "/", "w", "a", "t", "c", "h", "?", "v", "=">> \o id,
                           <<"y", "o", "u", "t", "u", "b", "e", ".", "c", "o", "m", "/", "w", "a", "t", "c", "h", "?", "v", "=">> \o id \o <<"&", "t", "=", "5", "s">>,
                           <<"y", "o", "u", "t", "u", ".", "b", "e", "/">> \o id,
                           <<"y", "o", "u", "t", "u", ".", "b", "e", "/">> \o id \o <<"?", "t", "=", "5">>,
                           <<"y", "o", "u", "t", "u", "b", "e", ".", "c", "o", "m", "/", "e", "m", "b", "e", "d", "/">> \o id,
                           <<"y", "o", "u", "t", "u", "b", "e", ".", "c", "o", "m", "/", "v", "/">> \o id}}

ChannelIdUrls(id) == {pre \o <<"y", "o", "u", "t", "u", "b", "e", ".", "c", "o", "m", "/", "c", "h", "a", "n", "n", "e", "l", "/">> \o id : pre \in UrlPrefixes}

HandleUrls(handle) == {pre \o <<"y", "o", "u", "t", "u", "b", "e", ".", "c", "o", "m", "/", "@">> \o handle : pre \in UrlPrefixes}

\* strings that are no URL of a supported shape
UnrelatedUrls == {UrlGarbage,
                  <<"e", "x", "a", "m", "p", "l", "e", ".", "c", "o", "m", "/", "w", "a", "t", "c", "h", "?", "v", "=", "d", "Q", "w", "4", "w", "9", "W", "g", "X", "c", "Q">>,
                  <<"y", "o", "u", "t", "u", "b", "e", ".", "c", "o", "m", "/", "w", "a", "t", "c", "h", "?", "v", "=", "s", "h", "o", "r", "t">>,
                  <<"y", "o", "u", "t", "u", "b", "e", ".", "c", "o", "m", "/">>}

ShapedUrls ==
  UNION {VideoUrls(id) : id \in VideoIdSamples}
    \cup UNION {ChannelIdUrls(id) : id \in ChannelIdSamples}
    \cup UNION {HandleUrls(handle) : handle \in HandleSamples}
    \cup UnrelatedUrls

InitUrl ==
  /\ apiKey = "KEY"
  /\ videoCount = <<"3", "0">>
  /\ \/ searchType = "url" /\ url \in ShapedUrls /\ keyword = <<>>
     \/ searchType = "keyword" /\ url = <<>> /\ keyword = <<"c", "a", "t", "s">>
  /\ videoData = <<>>
  /\ isLoading = FALSE
  /\ error = Null
  /\ searchHistory = <<>>
  /\ runs = <<>>
  /\ net = {}
  /\ started = 0
  /\ sortKey = "publishedAt"
  /\ sortDirection = "desc"

SpecUrl == InitUrl /\ [][NextRun]_vars

(***************************************************************************)
(* The pipeline under every duration a video item may carry: a video URL   *)
(* is fetched and the batch answers one item.                              *)
(***************************************************************************)
\* a component of a duration: absent, or its number
Absent == 0 - 1

ComponentSamples == {Absent, 0, 1, 2, 45}

\* PT[nH][nM][nS]
FormatDuration(h, m, s) ==
  LitPT \o (IF h = Absent THEN <<>> ELSE Append(Numeral(h), "H"))
        \o (IF m = Absent THEN <<>> ELSE Append(Numeral(m), "M"))
        \o (IF s = Absent THEN <<>> ELSE Append(Numeral(s), "S"))

WellFormedDurations ==
  {FormatDuration(h, m, s) : h \in ComponentSamples, m \in ComponentSamples, s \in ComponentSamples}

\* strings that are not of the form PT[nH][nM][nS]
MalformedDurations ==
  {<<>>, <<"g", "a", "r", "b", "a", "g", "e">>, <<"P", "1", "D", "T", "2", "H">>, <<"1", "H", "2", "M", "3", "S">>, <<"P", "2", "M">>, <<"p", "t", "2", "m">>, <<"X", "P", "T", "2", "M">>, <<"P", "T", "2", "M", "x">>, <<"P", "T", "5", "S", "3", "M">>, <<"P", "T", "1", ".", "5", "S">>}

DurationInputs == WellFormedDurations \cup MalformedDurations

InitDuration ==
  /\ apiKey = "KEY"
  /\ videoCount = <<"3", "0">>
  /\ searchType = "url"
  /\ url = UrlWatch
  /\ keyword = <<>>
  /\ videoData = <<>>
  /\ isLoading = FALSE
  /\ error = Null
  /\ searchHistory = <<>>
  /\ runs = <<>>
  /\ net = {}
  /\ started = 0
  /\ sortKey = "publishedAt"
  /\ sortDirection = "desc"

\* the video batch answers one item, of any duration
RespondVideosOfDuration ==
  /\ \E i \in 1..Len(runs) : \E d \in DurationInputs :
       LET item == CHOOSE v \in VideoItemSamples : v.id = Vid1
       IN  Awaiting(i, "videos") /\ AfterVideos(i, Ok(<<[item EXCEPT !.duration = d]>>))
  /\ UNCHANGED <<inputs, sorting, searchHistory, started>>

NextDuration ==
  \/ handleFetchData
  \/ RespondVideosOfDuration
  \/ RespondChannelStats

SpecDuration == InitDuration /\ [][NextDuration]_vars

(***************************************************************************)
(* The pipeline with every outstanding call answered in the end: fetch has *)
(* no timeout and no abort, the upstream service answers or fails, and the *)
(* event loop then runs the continuation that awaits the answer.           *)
(***************************************************************************)
SpecLive ==
  /\ InitRun
  /\ [][NextRun]_vars
  /\ WF_vars(RespondHandleSearch)
  /\ WF_vars(RespondChannelLookup)
  /\ WF_vars(RespondPlaylistItems)
  /\ WF_vars(RespondKeywordSearch)
  /\ WF_vars(RespondVideos)
  /\ WF_vars(RespondChannelStats)

(***************************************************************************)
(* Properties.                                                             *)
(***************************************************************************)
PendingRuns == {i \in 1..Len(runs) : Pending(runs[i])}

Outstanding(r) == {q \in net : q.run = r.id}

\* the call whose response the run took in last ("" before any response)
LastAnswered(r) == IF r.received >= 1 THEN r.calls[r.received] ELSE ""

\* C1: at most one run of handleFetchData is pending at any time, and while
\* one is pending the fetch button is disabled, whatever the user edits
C1_AtMostOneRunInFlight ==
  /\ Cardinality(PendingRuns) <= 1
  /\ PendingRuns # {} => ButtonDisabled
  /\ Cardinality(net) <= 1

\* a run is pending after the user switched the search mode and edited the URL
\* under it
C1_Witness ==
  /\ PendingRuns # {}
  /\ started = 1
  /\ searchType = "keyword"
  /\ runs[1].calls = <<"videos">>
  /\ url = UrlGarbage

\* C2: a run in which a step failed has issued no call after the failing one,
\* ends showing its error message over an empty list, and no run that has
\* ended leaves part of a list displayed.  (The steps are those of the try
\* block; a click with an empty API key starts no run.)
C2_FailureAbortsWithoutPartialResult ==
  \A i \in 1..Len(runs) :
    LET r == runs[i]
    IN  /\ (r.received >= 1 /\ ~r.lastResp.ok) => r.outcome = "error"
        /\ r.outcome = "error" =>
             /\ r.pc = "done"
             /\ Outstanding(r) = {}
             /\ r.received = Len(r.calls)
             /\ error # Null
             /\ error = r.message
             /\ videoData = <<>>
        /\ r.pc = "done" =>
             \/ videoData = <<>>
             \/ r.outcome = "data" /\ videoData = r.returned

\* the channel-statistics batch, the last step, failed for a run that had
\* surviving videos
C2_Witness ==
  \E i \in 1..Len(runs) :
    /\ runs[i].outcome = "error"
    /\ LastAnswered(runs[i]) = "channelStats"
    /\ ~runs[i].lastResp.ok
    /\ runs[i].filtered # <<>>

AllShort(items) ==
  \A k \in 1..Len(items) : parseISO8601Duration(items[k].duration) < 120

\* C3: an empty video batch is the failure "no video found"; a batch whose
\* items are all shorter than 120 seconds is an empty list, returned without
\* error and without the channel-statistics call
C3_EmptinessAsymmetry ==
  \A i \in 1..Len(runs) :
    LET r == runs[i]
    IN  (LastAnswered(r) = "videos" /\ r.lastResp.ok) =>
          /\ ~HasItems(r.lastResp) =>
               /\ r.pc = "done"
               /\ r.outcome = "error"
               /\ r.message = MsgVideoNotFound
               /\ error = MsgVideoNotFound
          /\ (HasItems(r.lastResp) /\ AllShort(r.lastResp.items)) =>
               /\ r.pc = "done"
               /\ r.outcome = "data"
               /\ r.returned = <<>>
               /\ error = Null
               /\ ~("channelStats" \in Range(r.calls))
               /\ Outstanding(r) = {}

\* a batch of two items, both too short, ended a run without error
C3_Witness ==
  \E i \in 1..Len(runs) :
    /\ LastAnswered(runs[i]) = "videos"
    /\ Len(runs[i].lastResp.items) = 2
    /\ AllShort(runs[i].lastResp.items)
    /\ runs[i].outcome = "data"
    /\ error = Null

\* C4: every displayed record has the id of an upstream item whose parsed
\* duration is at least 120 seconds (an id names one item upstream)
C4_OnlyLongVideosBecomeRecords ==
  \A k \in 1..Len(videoData) :
    /\ \E item \in VideoItemSamples : item.id = videoData[k].videoId
    /\ \A item \in VideoItemSamples :
         item.id = videoData[k].videoId => parseISO8601Duration(item.duration) >= 120

\* the one record displayed is of a video of exactly 120 seconds
C4_Witness ==
  /\ videoData # <<>>
  /\ \E i \in 1..Len(runs) :
       /\ runs[i].outcome = "data"
       /\ Len(runs[i].filtered) = 1
       /\ parseISO8601Duration(runs[i].filtered[1].duration) = 120

\* C5: the displayed list is empty or is, whole, the list one call of
\* fetchYouTubeVideosData returned
C5_ListIsAtomic ==
  \/ videoData = <<>>
  \/ \E i \in 1..Len(runs) :
       /\ runs[i].pc = "done"
       /\ runs[i].outcome = "data"
       /\ videoData = runs[i].returned
       /\ Len(videoData) = Len(runs[i].filtered)

\* the second run of a behaviour displays a list of two records
C5_Witness ==
  /\ started = 2
  /\ Len(videoData) = 2
  /\ \E i \in 1..Len(runs) : runs[i].id = 2 /\ runs[i].outcome = "data"

\* the order of the remote calls of a URL run, and of a keyword run
ChannelOrder == <<"handleSearch", "channelLookup", "playlistItems", "videos", "channelStats">>

KeywordOrder == <<"keywordSearch", "videos", "channelStats">>

\* calls is order[k+1..k+n] for some k
IsSegment(calls, order) ==
  \E k \in 0..(Len(order) - Len(calls)) :
    \A j \in 1..Len(calls) : calls[j] = order[k + j]

\* C6: the calls of a run follow the fixed order without a gap or a repeat, a
\* handle search is made only for a handle identifier, a call is issued only
\* once the response of the one before was taken in as a success with items,
\* and a run never has two calls outstanding
C6_CallsStrictlySequential ==
  \A i \in 1..Len(runs) :
    LET r == runs[i]
        n == Len(r.calls)
    IN  /\ IF searchType = "url" THEN IsSegment(r.calls, ChannelOrder)
           ELSE IsSegment(r.calls, KeywordOrder) /\ (n >= 1 => r.calls[1] = "keywordSearch")
        /\ \A j, k \in 1..n : j # k => r.calls[j] # r.calls[k]
        /\ (n >= 1 /\ r.calls[1] = "handleSearch") =>
             extractChannelIdentifier(url).type = "handle"
        /\ (n >= 1 /\ r.calls[1] = "channelLookup") =>
             extractChannelIdentifier(url).type = "id"
        /\ Cardinality(Outstanding(r)) <= 1
        /\ IF Pending(r)
             THEN /\ n >= 1
                  /\ r.pc = r.calls[n]
                  /\ r.received = n - 1
                  /\ \E q \in net : Outstanding(r) = {q} /\ q.call = r.calls[n]
                  /\ r.received >= 1 => r.lastResp.ok /\ HasItems(r.lastResp)
             ELSE /\ r.received = n
                  /\ Outstanding(r) = {}

\* a handle run went through all five calls and displayed its records
C6_Witness ==
  \E i \in 1..Len(runs) :
    /\ runs[i].calls = ChannelOrder
    /\ runs[i].outcome = "data"
    /\ videoData # <<>>

\* the error kinds of the spec, told apart by the message the code throws
ChannelNotFoundMessages == {MsgChannelIdNotFound, MsgChannelInfoNotFound}

NoUploadsPlaylistMessages == {MsgNoUploadsPlaylist}

NoVideosFoundMessages == {MsgNoVideosInChannel}

\* the run failed with a message of the given kind
FailedWith(r, kind) == r.pc = "done" /\ r.outcome = "error" /\ r.message \in kind

\* the run took in, last, a success of the given call
Got(r, call) == LastAnswered(r) = call /\ r.lastResp.ok

\* the failure points of the listing other than the content-details one, and
\* its result
ListingFailurePoints(r) ==
  /\ (Got(r, "handleSearch") /\ ~(HasItems(r.lastResp) /\ r.lastResp.items[1] # <<>>)) =>
       FailedWith(r, ChannelNotFoundMessages)
  /\ (Got(r, "playlistItems") /\ ~HasItems(r.lastResp)) =>
       FailedWith(r, NoVideosFoundMessages)
  /\ (Got(r, "playlistItems") /\ HasItems(r.lastResp)) =>
       /\ r.pc = "videos"
       /\ \E q \in net : Outstanding(r) = {q} /\ q.call = "videos" /\ q.ids = r.lastResp.items

\* C7 as stated: a channel lookup whose channel has no content details fails
\* with ChannelNotFoundError, one with content details but no uploads playlist
\* with NoUploadsPlaylistError
C7_AsStated ==
  \A i \in 1..Len(runs) :
    LET r == runs[i]
    IN  /\ ListingFailurePoints(r)
        /\ (Got(r, "channelLookup") /\ HasItems(r.lastResp)
              /\ ~r.lastResp.items[1].contentDetails) =>
             FailedWith(r, ChannelNotFoundMessages)
        /\ (Got(r, "channelLookup") /\ HasItems(r.lastResp)
              /\ r.lastResp.items[1].contentDetails /\ r.lastResp.items[1].uploads = <<>>) =>
             FailedWith(r, NoUploadsPlaylistMessages)

\* C7 (amended): a channel lookup that returns no channel fails with
\* ChannelNotFoundError; a returned channel without content details, or with
\* content details but no uploads playlist, fails with NoUploadsPlaylistError;
\* a handle that resolves to no channel fails with ChannelNotFoundError, an
\* empty uploads playlist with NoVideosFoundError, and otherwise the ids of the
\* listed items are what the video batch is asked for
C7_ListingErrorKinds ==
  \A i \in 1..Len(runs) :
    LET r == runs[i]
    IN  /\ ListingFailurePoints(r)
        /\ (Got(r, "channelLookup") /\ ~HasItems(r.lastResp)) =>
             FailedWith(r, ChannelNotFoundMessages)
        /\ (Got(r, "channelLookup") /\ HasItems(r.lastResp)
              /\ (~r.lastResp.items[1].contentDetails \/ r.lastResp.items[1].uploads = <<>>)) =>
             FailedWith(r, NoUploadsPlaylistMessages)

\* a lookup returned a channel without content details and the run failed for
\* want of an uploads playlist
C7_Witness ==
  \E i \in 1..Len(runs) :
    /\ Got(runs[i], "channelLookup")
    /\ HasItems(runs[i].lastResp)
    /\ ~runs[i].lastResp.items[1].contentDetails
    /\ runs[i].message = MsgNoUploadsPlaylist
    /\ error = MsgNoUploadsPlaylist

\* C8: whichever call it is, a non-success status whose body supplies a message
\* ends the run with that very message, and that message is what is shown
C8_UpstreamMessageVerbatim ==
  \A i \in 1..Len(runs) :
    LET r == runs[i]
    IN  (r.received >= 1 /\ ~r.lastResp.ok /\ r.lastResp.message # "") =>
          /\ r.pc = "done"
          /\ r.outcome = "error"
          /\ r.message = r.lastResp.message
          /\ error = r.lastResp.message

\* the channel-statistics batch answered a non-success status with a message
C8_Witness ==
  \E i \in 1..Len(runs) :
    /\ LastAnswered(runs[i]) = "channelStats"
    /\ ~runs[i].lastResp.ok
    /\ runs[i].lastResp.message = "quotaExceeded"
    /\ error = "quotaExceeded"

\* C9: in every displayed record the rate is 0 when there are no subscribers
\* and the exact quotient viewCount / subscriberCount otherwise, with a
\* denominator that is never 0
C9_DiffusionRateFormula ==
  \A k \in 1..Len(videoData) :
    LET v == videoData[k]
    IN  /\ v.diffusionRate.den > 0
        /\ v.subscriberCount = 0 => v.diffusionRate = [num |-> 0, den |-> 1]
        /\ v.subscriberCount # 0 =>
             v.diffusionRate.num * v.subscriberCount = v.viewCount * v.diffusionRate.den
        /\ (v.viewCount = 1000 /\ v.subscriberCount = 500) =>
             v.diffusionRate = [num |-> 2, den |-> 1]

\* the list shows 1000 views over 500 subscribers next to 1000 views over none
C9_Witness ==
  /\ Len(videoData) = 2
  /\ \E k \in 1..2 : /\ videoData[k].viewCount = 1000
                     /\ videoData[k].subscriberCount = 500
                     /\ videoData[k].diffusionRate.num = 2
  /\ \E k \in 1..2 : /\ videoData[k].viewCount = 1000
                     /\ videoData[k].subscriberCount = 0
                     /\ videoData[k].diffusionRate.num = 0

\* the channels a channel-statistics response lists
ListedChannels(resp) ==
  IF resp.hasItems THEN {resp.items[k].id : k \in 1..Len(resp.items)} ELSE {}

\* C10: when the channel-statistics batch succeeds without the channel of a
\* surviving video, be it that the response lists no channel at all, the run
\* succeeds and the video's record has subscriberCount 0 and diffusionRate 0
C10_MissingStatsDefaultToZero ==
  \A i \in 1..Len(runs) :
    LET r == runs[i]
    IN  (Got(r, "channelStats")
           /\ \E k \in 1..Len(r.filtered) :
                r.filtered[k].channelId \notin ListedChannels(r.lastResp)) =>
          /\ r.outcome = "data"
          /\ Len(r.returned) = Len(r.filtered)
          /\ \A k \in 1..Len(r.filtered) :
               r.filtered[k].channelId \notin ListedChannels(r.lastResp) =>
                 /\ r.returned[k].videoId = r.filtered[k].id
                 /\ r.returned[k].subscriberCount = 0
                 /\ r.returned[k].diffusionRate = [num |-> 0, den |-> 1]

\* the positions of the batch items that last at least two minutes
LongPositions(items) ==
  {k \in 1..Len(items) : parseISO8601Duration(items[k].duration) >= 120}

\* the ids of those items, in the order of the batch
LongIds(items) ==
  LET keep == LongPositions(items)
      nth(j) == CHOOSE k \in keep : Cardinality({m \in keep : m < k}) = j - 1
  IN  [j \in 1..Cardinality(keep) |-> items[nth(j)].id]

\* a run with the given id ends, in this step, by displaying a result
Delivers(i, j) ==
  /\ runs'[j].id = runs[i].id
  /\ Pending(runs[i])
  /\ runs'[j].pc = "done"
  /\ runs'[j].outcome = "data"

\* C11: the list a run displays holds one record for each item of the video
\* batch response that lasts at least 120 seconds, in the order of that
\* response, whatever ids were asked for and however the items group by channel
C11_OrderOfBatchPreserved ==
  [][\A i \in 1..Len(runs) : \A j \in 1..Len(runs') :
       Delivers(i, j) =>
         LET batch == IF runs[i].pc = "channelStats" THEN runs[i].lastResp
                      ELSE runs'[j].lastResp
             shown == runs'[j].returned
         IN  /\ videoData' = shown
             /\ [k \in 1..Len(shown) |-> shown[k].videoId] = LongIds(batch.items)]_vars

\* a channel run asked for the ids of its playlist and displays the records in
\* the order of the batch it was answered, which spans two channels
C11_Witness ==
  \E i \in 1..Len(runs) :
    /\ runs[i].outcome = "data"
    /\ runs[i].calls = <<"channelLookup", "playlistItems", "videos", "channelStats">>
    /\ [k \in 1..Len(videoData) |-> videoData[k].videoId] = <<Vid3, Vid1>>

\* C12: the count handed to the playlist listing or to the keyword search is
\* the entered integer n clamped to [1,50]: 1 for n < 1, 50 for n > 50, n
\* otherwise
C12_CountClamped ==
  \A n \in EnteredCounts :
    videoCount = Numeral(n) =>
      \A q \in net :
        q.call \in {"playlistItems", "keywordSearch"} =>
          q.maxResults = IF n < 1 THEN 1 ELSE IF n > 50 THEN 50 ELSE n

NoDuplicates(h) == \A j, k \in 1..Len(h) : j # k => h[j] # h[k]

\* the position of x in a history without duplicates (0 when absent)
PositionIn(h, x) ==
  IF \E k \in 1..Len(h) : h[k] = x THEN CHOOSE k \in 1..Len(h) : h[k] = x ELSE 0

\* new is old after newUrl was added most-recent-first: newUrl leads, the
\* others keep their order, and only the oldest entry of a full history goes
AddedAtHead(old, newUrl, new) ==
  /\ Len(new) >= 1
  /\ new[1] = newUrl
  /\ \A j, k \in 2..Len(new) :
       j < k => 0 < PositionIn(old, new[j]) /\ PositionIn(old, new[j]) < PositionIn(old, new[k])
  /\ Range(new) = IF Len(old) < HistoryCap \/ newUrl \in Range(old)
                    THEN Range(old) \cup {newUrl}
                    ELSE (Range(old) \ {old[Len(old)]}) \cup {newUrl}

\* C13: the history never holds a URL twice nor more than 10 URLs, every
\* recorded URL goes to the head with the others keeping their order, a
\* re-added URL moves instead of doubling, the 11th distinct URL pushes the
\* oldest out, and X after Y after X leaves [X, Y]
C13_HistoryBoundedDedupedRecentFirst ==
  /\ [](NoDuplicates(searchHistory) /\ Len(searchHistory) <= 10)
  /\ [][(started' = started + 1 /\ ~TrimIsEmpty(url)) =>
          /\ AddedAtHead(searchHistory, url, searchHistory')
          /\ (searchHistory = <<<<"b">>, <<"a">>>> /\ url = <<"a">>) =>
               searchHistory' = <<<<"a">>, <<"b">>>>]_vars

\* a full history took an 11th URL, which pushed the oldest out, and then the
\* re-added newest of the old ones, which moved to the head
C13_Witness ==
  /\ started = 2
  /\ Len(searchHistory) = 10
  /\ searchHistory[1] = <<"a">>
  /\ searchHistory[2] = <<"k">>
  /\ \A k \in 1..10 : searchHistory[k] # <<"j">>

\* s and t hold the same records, each as often
SameRecords(s, t) ==
  /\ Len(s) = Len(t)
  /\ \A x \in Range(s) \cup Range(t) :
       Cardinality({k \in 1..Len(s) : s[k] = x}) = Cardinality({k \in 1..Len(t) : t[k] = x})

\* C14: clicking the header of the sort column flips the direction, keeps the
\* key and shows the rows in exactly the reverse order; clicking another header
\* makes it the key with the direction descending, whatever it was; and the
\* rows shown are always the records of the list, whichever way they are sorted
C14_SortState ==
  /\ [](\A engine \in Engines :
         \E shown \in {sortedVideos(engine)} : SameRecords(shown, videoData))
  /\ [][\A key \in SortKeys :
          handleSort(key) =>
            IF key = sortKey
              THEN /\ sortKey' = sortKey
                   /\ sortDirection' # sortDirection
                   /\ sortDirection' \in {"asc", "desc"}
                   /\ \A engine \in Engines :
                        \E shown \in {sortedVideos(engine)} :
                          sortedVideos(engine)' = Reverse(shown)
              ELSE /\ sortKey' = key
                   /\ sortDirection' = "desc"]_vars

\* two different records with equal view counts are shown by ascending view
\* count, which takes a click on that header and a second one to flip it
C14_Witness ==
  /\ Len(videoData) = 2
  /\ videoData[1].viewCount = videoData[2].viewCount
  /\ videoData[1] # videoData[2]
  /\ sortKey = "viewCount"
  /\ sortDirection = "asc"

\* what a click made of the URL: the first call of the run and what it asks for
FirstCallIs(call, ids) ==
  \A i \in 1..Len(runs) :
    /\ runs[i].calls # <<>>
    /\ runs[i].calls[1] = call
    /\ \A q \in net : (q.run = runs[i].id /\ runs[i].received = 0) => q.ids = ids

\* C15: a URL of a video shape gives the embedded 11-character id and no
\* channel identifier, a URL of a channel shape gives no video id and the
\* channel id or the handle, an unrelated string gives neither; and a click
\* acts on exactly that result
C15_ExactlyOneExtractor ==
  /\ \A id \in VideoIdSamples :
       url \in VideoUrls(id) =>
         /\ extractVideoId(url) = id
         /\ extractChannelIdentifier(url) = NoIdentifier
         /\ FirstCallIs("videos", <<id>>)
  /\ \A id \in ChannelIdSamples :
       url \in ChannelIdUrls(id) =>
         /\ extractVideoId(url) = <<>>
         /\ extractChannelIdentifier(url) = [type |-> "id", value |-> id]
         /\ FirstCallIs("channelLookup", <<id>>)
  /\ \A handle \in HandleSamples :
       url \in HandleUrls(handle) =>
         /\ extractVideoId(url) = <<>>
         /\ extractChannelIdentifier(url) = [type |-> "handle", value |-> handle]
         /\ FirstCallIs("handleSearch", <<handle>>)
  /\ url \in UnrelatedUrls =>
       /\ extractVideoId(url) = <<>>
       /\ extractChannelIdentifier(url) = NoIdentifier
       /\ \A i \in 1..Len(runs) : runs[i].calls = <<>> /\ runs[i].message = MsgInvalidUrl

\* a click on an /embed/ URL whose id itself begins with "embed" asked for
\* exactly that video
C15_Witness ==
  /\ \E pre \in UrlPrefixes :
       url = pre \o <<"y", "o", "u", "t", "u", "b", "e", ".", "c", "o", "m", "/", "e", "m", "b", "e", "d", "/">>
                 \o <<"e", "m", "b", "e", "d", "-", "_", "0", "a", "Z", "9">>
  /\ \E q \in net :
       q.call = "videos" /\ q.ids = <<<<"e", "m", "b", "e", "d", "-", "_", "0", "a", "Z", "9">>>>

\* the messages of the InvalidInputError kind
InvalidInputMessages == {MsgUrlRequired, MsgInvalidUrl, MsgKeywordRequired}

\* the form holds an input the try block rejects
InvalidInput ==
  IF searchType = "url"
    THEN \/ TrimIsEmpty(url)
         \/ extractVideoId(url) = <<>> /\ extractChannelIdentifier(url) = NoIdentifier
    ELSE TrimIsEmpty(keyword)

\* C16: a click on an invalid input (a blank URL, a URL neither extractor
\* accepts, a blank keyword), the API key being there, ends at once with an
\* invalid-input message, issues no remote call and leaves the list empty,
\* whatever was displayed before
C16_InvalidInputFailsLocally ==
  [][(started' = started + 1 /\ apiKey # "" /\ InvalidInput) =>
       /\ error' \in InvalidInputMessages
       /\ error' = IF searchType = "keyword" THEN MsgKeywordRequired
                   ELSE IF TrimIsEmpty(url) THEN MsgUrlRequired ELSE MsgInvalidUrl
       /\ net' = {}
       /\ videoData' = <<>>
       /\ isLoading' = FALSE
       /\ \A i \in 1..Len(runs') : runs'[i].calls = <<>> /\ runs'[i].pc = "done"]_vars

\* a video URL was fetched, then a string that is no URL: the second click
\* ended with the invalid-URL message over an empty list
C16_Witness ==
  /\ started = 2
  /\ searchHistory = <<UrlGarbage, UrlWatch>>
  /\ error = MsgInvalidUrl
  /\ videoData = <<>>
  /\ net = {}
  /\ ~isLoading

\* C18: whenever an error message is shown the displayed list is empty, also
\* after a click with an empty API key that follows a successful fetch
C18_ErrorImpliesEmptyList ==
  error # Null => videoData = <<>>

\* the seconds a component stands for
Component(n) == IF n = Absent THEN 0 ELSE n

ContainsPT(d) == \E i \in 1..Len(d) : MatchAt(d, i, LitPT)

\* the item of the batch went on to the statistics step of the run
Survived(r) == r.pc = "channelStats" /\ Len(r.filtered) = 1

\* the run ended with the empty list because the item was filtered out
Filtered(r) == r.pc = "done" /\ r.outcome = "data" /\ r.returned = <<>>

\* the durations the run's video batch carried, when that batch is the last
\* response the run took in
BatchDurations(r) ==
  IF Got(r, "videos") /\ HasItems(r.lastResp)
    THEN {r.lastResp.items[k].duration : k \in 1..Len(r.lastResp.items)}
    ELSE {}

\* C17 as stated: hours*3600 + minutes*60 + seconds for every PT[nH][nM][nS],
\* and 0 for every string that is not of that form
C17_AsStated ==
  \A i \in 1..Len(runs) : \A d \in BatchDurations(runs[i]) :
    /\ \A h, m, s \in ComponentSamples :
         d = FormatDuration(h, m, s) =>
           parseISO8601Duration(d) = Component(h) * 3600 + Component(m) * 60 + Component(s)
    /\ d \notin WellFormedDurations => parseISO8601Duration(d) = 0

\* C17 (amended): hours*3600 + minutes*60 + seconds for every PT[nH][nM][nS],
\* a missing component counting 0, and 0 for every string that does not
\* contain "PT"; the item is kept exactly when that value is at least 120
C17_ParseDuration ==
  \A i \in 1..Len(runs) : \A d \in BatchDurations(runs[i]) :
    /\ \A h, m, s \in ComponentSamples :
         d = FormatDuration(h, m, s) =>
           LET seconds == Component(h) * 3600 + Component(m) * 60 + Component(s)
           IN  /\ parseISO8601Duration(d) = seconds
               /\ IF seconds >= 120 THEN Survived(runs[i]) ELSE Filtered(runs[i])
    /\ ~ContainsPT(d) =>
         /\ parseISO8601Duration(d) = 0
         /\ Filtered(runs[i])

\* a batch item of 1 hour, 2 minutes and 45 seconds, 3765 seconds, went on to
\* the statistics step
C17_Witness ==
  \E i \in 1..Len(runs) :
    /\ Survived(runs[i])
    /\ runs[i].filtered[1].duration = <<"P", "T", "1", "H", "2", "M", "4", "5", "S">>
    /\ parseISO8601Duration(runs[i].filtered[1].duration) = 3765

\* the run with the given id is pending
RunPending(n) == \E i \in 1..Len(runs) : runs[i].id = n /\ Pending(runs[i])

\* C19: the loading flag is set exactly while a run is pending, and, every
\* outstanding call being answered in the end, every pending run ends and the
\* flag is cleared, which enables the button again
C19_LoadingFlagClears ==
  /\ [](isLoading <=> PendingRuns # {})
  /\ \A n \in 1..MaxFetch :
       RunPending(n) ~> (~RunPending(n) /\ ~isLoading /\ ~ButtonDisabled)
  /\ isLoading ~> ~isLoading

\* the second run went through three calls, ended on the soft empty result
\* and the flag is cleared
C19_Witness ==
  /\ ~isLoading
  /\ \E i \in 1..Len(runs) :
       /\ runs[i].id = 2
       /\ runs[i].calls = <<"channelLookup", "playlistItems", "videos">>
       /\ runs[i].outcome = "data"
       /\ runs[i].returned = <<>>

====
